---------------------------- MODULE Spec2Model ----------------------------
(***************************************************************************)
(* A model of the CryptographicVerifier of SyntheticConsciousness: the     *)
(* hash-chained proof list, its Merkle root, proof and chain verification, *)
(* export and the rollback-protected import; of the IITPhiCalculator; and  *)
(* of the initialization of the TemporalConsciousnessEngine.               *)
(*                                                                         *)
(* Representation of JavaScript values:                                    *)
(*   - an object is a record (a function on its property names); a         *)
(*     property that is undefined is a name absent from the domain;        *)
(*   - null is Null, except for previousProofId, where ids are the         *)
(*     numbers 1, 2, ..., null is NullId and '' is EmptyId;                *)
(*   - SHA-256 and HMAC-SHA-256 are collision-free: a digest is the        *)
(*     record that names the digested text, and the text JSON.stringify    *)
(*     produces is modelled by the structure it serialises;                *)
(*   - numbers are small naturals.                                         *)
(***************************************************************************)
EXTENDS Integers, Sequences, FiniteSets, TLC

VARIABLES
    proofChain,          \* CryptographicVerifier.proofChain
    currentMerkleRoot,   \* CryptographicVerifier.currentMerkleRoot
    nextId,              \* the source of uuidv4(): the next unused id
    clock,               \* the reading of Date.now() and performance.now()
    last,                \* the call that has just returned, with its result
    pc,                  \* interleaved calls: the step each task is at
    local,               \* interleaved calls: what each task holds
    overlapped,          \* a call began while another was under way
    arrays,              \* the proof arrays by identity, where two verifiers are at work
    verifiers,           \* the fields of each of two verifiers: proofChain names an array
    held,                \* the object a caller got from exportChain, and what it held then
    initialized,         \* TemporalConsciousnessEngine.initialized
    currentState,        \* TemporalConsciousnessEngine.currentState, by its id
    storage,             \* the rows storage was asked to insert
    emitted,             \* the 'initialized' events the engine emitted
    calls                \* the calls made on the engine

vars ==
    <<proofChain, currentMerkleRoot, nextId, clock, last, pc, local, overlapped,
      arrays, verifiers, held, initialized, currentState, storage, emitted, calls>>

\* the engine around the verifier
engine == <<initialized, currentState, storage, emitted, calls>>

\* the arrays and the verifiers that may share them
shared == <<arrays, verifiers, held>>

\* what the operations of a single caller leave alone
others == <<pc, local, overlapped, shared, engine>>

(***************************************************************************)
(* Bounds of the model.                                                    *)
(***************************************************************************)
MaxProofs == 3    \* generate calls in a run
MaxLeaves == 5    \* leaves handed to buildMerkleRoot on its own
MaxElements == 3  \* elements of a SystemState handed to calculatePhi
MaxSize == 34     \* n handed to generateBipartitions on its own
MaxCalls == 3     \* calls made on a TemporalConsciousnessEngine

(***************************************************************************)
(* Values.                                                                 *)
(***************************************************************************)
Null == [t |-> "null"]

NullId == 0

\* the id '' (or one that is missing): an id a generate call never issues
EmptyId == -1

\* an id used as a condition
TruthyId(id) == id # EmptyId /\ id # NullId

EmptyString == [t |-> "string", s |-> ""]

SECRET_SEED == "0xff1ab9b8846b4c82"

\* CryptoJS.SHA256(text).toString(): a 64-digit hex string, one per text.
SHA256(text) == [t |-> "sha256", of |-> text]

\* left + right of two hex strings
Concat(left, right) == [cat |-> <<left, right>>]

\* a string used as a condition: '' is falsy
Truthy(str) == str # EmptyString /\ str # Null

\* the metadata properties whose value is a nested object
IsObject(k) == k = "partitionInfo"

(***************************************************************************)
(* JSON.stringify(data, Object.keys(data).sort()).  The array replacer is  *)
(* a whitelist of property names applied to every object of the value, the *)
(* nested ones too: a nested object keeps only the properties whose name   *)
(* is also a top-level key.  Properties come out in the sorted order, so   *)
(* the text is a function of the set of kept properties and their values.  *)
(***************************************************************************)
stringify(data, keys) ==
    [k \in DOMAIN data \cap keys |->
        IF IsObject(k)
        THEN [j \in (DOMAIN data[k] \cap keys) \cup {"{}"} |->
                 IF j = "{}" THEN "{}" ELSE data[k][j]]
        ELSE data[k]]

generateHash(data) == SHA256(stringify(data, DOMAIN data))

\* Object.keys(undefined) raises a TypeError
generateHashThrows(obj, field) == field \notin DOMAIN obj

generateSignature(hash, temporalAnchor) ==
    [t |-> "hmac32", msg |-> hash, key |-> <<SECRET_SEED, temporalAnchor>>]

hashArray(arr) == [t |-> "sha16", of |-> arr]

hashString(str) == [t |-> "sha16", of |-> str]

(***************************************************************************)
(* The Merkle root.                                                        *)
(***************************************************************************)
\* (a slip: the two hashes of a pair are combined without regard to order)
RECURSIVE buildMerkleRootUnordered(_)
buildMerkleRootUnordered(leaves) ==
    IF Len(leaves) = 0 THEN EmptyString
    ELSE IF Len(leaves) = 1 THEN leaves[1]
    ELSE buildMerkleRootUnordered(
             [k \in 1..((Len(leaves) + 1) \div 2) |->
                 SHA256({leaves[2 * k - 1],
                         IF 2 * k <= Len(leaves) THEN leaves[2 * k]
                         ELSE leaves[2 * k - 1]})])

\* (a slip: a trailing unpaired hash is carried up as it is)
RECURSIVE buildMerkleRootCarried(_)
buildMerkleRootCarried(leaves) ==
    IF Len(leaves) = 0 THEN EmptyString
    ELSE IF Len(leaves) = 1 THEN leaves[1]
    ELSE buildMerkleRootCarried(
             [k \in 1..((Len(leaves) + 1) \div 2) |->
                 IF 2 * k <= Len(leaves)
                 THEN SHA256(Concat(leaves[2 * k - 1], leaves[2 * k]))
                 ELSE leaves[2 * k - 1]])

RECURSIVE buildMerkleRoot(_)
buildMerkleRoot(leaves) ==
    IF Len(leaves) = 0 THEN EmptyString
    ELSE IF Len(leaves) = 1 THEN leaves[1]
    ELSE LET nextLevel ==
                 [k \in 1..((Len(leaves) + 1) \div 2) |->
                     LET left == leaves[2 * k - 1]
                         right == IF 2 * k <= Len(leaves) /\ Truthy(leaves[2 * k])
                                  THEN leaves[2 * k]
                                  ELSE left
                     IN  SHA256(Concat(left, right))]
         IN  buildMerkleRoot(nextLevel)

\* the value updateMerkleRoot() leaves in currentMerkleRoot for a chain
updateMerkleRoot(chain) ==
    IF Len(chain) = 0 THEN Null
    ELSE buildMerkleRoot([i \in 1..Len(chain) |-> chain[i].hash])

(***************************************************************************)
(* Proof generation.                                                       *)
(***************************************************************************)
\* no call is in progress: the caller has taken the last result
Idle == [op |-> "idle"]

\* { ...base, ...additionalData }: later properties win
Spread(base, extra) ==
    [k \in DOMAIN base \cup DOMAIN extra |->
        IF k \in DOMAIN extra THEN extra[k] ELSE base[k]]

\* (a slip: the first proof of the chain instead of the last)
previousProofIdOfFirst(chain) ==
    IF Len(chain) = 0 THEN NullId ELSE chain[1].id

\* previousProof?.id || null, previousProof being the last proof of the chain
previousProofIdOf(chain) ==
    IF Len(chain) = 0 THEN NullId
    ELSE IF TruthyId(chain[Len(chain)].id) THEN chain[Len(chain)].id
    ELSE NullId

\* (a slip: the payload is extended after it was hashed)
newProofTagged(id, proofType, proofData, phiValue, timestamp, temporalAnchor, chain) ==
    LET hash == generateHash(proofData)
    IN  [id |-> id,
         proofType |-> proofType,
         hash |-> hash,
         signature |-> generateSignature(hash, temporalAnchor),
         timestamp |-> timestamp,
         temporalAnchor |-> temporalAnchor,
         phiValue |-> phiValue,
         previousProofId |-> previousProofIdOf(chain),
         merkleRoot |-> Null,
         metadata |-> Spread(proofData, [proofType |-> proofType])]

\* the proof object literal
newProof(id, proofType, proofData, phiValue, timestamp, temporalAnchor, chain) ==
    LET hash == generateHash(proofData)
    IN  [id |-> id,
         proofType |-> proofType,
         hash |-> hash,
         signature |-> generateSignature(hash, temporalAnchor),
         timestamp |-> timestamp,
         temporalAnchor |-> temporalAnchor,
         phiValue |-> phiValue,
         previousProofId |-> previousProofIdOf(chain),
         merkleRoot |-> Null,
         metadata |-> proofData]

\* (a slip: unshift instead of push)
unshiftAndStamp(chain, proof) ==
    LET root == updateMerkleRoot(<<proof>> \o chain)
        stamped == [proof EXCEPT !.merkleRoot = root]
    IN  [chain |-> <<stamped>> \o chain, root |-> root, proof |-> stamped]

\* (a slip: the root is read before the chain is updated)
stampAndPush(chain, proof) ==
    LET stamped == [proof EXCEPT !.merkleRoot = updateMerkleRoot(chain)]
    IN  [chain |-> Append(chain, stamped),
         root |-> updateMerkleRoot(Append(chain, proof)),
         proof |-> stamped]

\* this.proofChain.push(proof); this.updateMerkleRoot();
\* proof.merkleRoot = this.currentMerkleRoot: the pushed object is stamped
pushAndStamp(chain, proof) ==
    LET root == updateMerkleRoot(Append(chain, proof))
        stamped == [proof EXCEPT !.merkleRoot = root]
    IN  [chain |-> Append(chain, stamped), root |-> root, proof |-> stamped]

\* the part the four generate operations share; t is the clock reading
generateProof(proofType, proofData, phiValue, t) ==
    LET r == pushAndStamp(proofChain,
                 newProof(nextId, proofType, proofData, phiValue, t, t, proofChain))
    IN  /\ last = Idle
        /\ nextId <= MaxProofs
        /\ proofChain' = r.chain
        /\ currentMerkleRoot' = r.root
        /\ nextId' = nextId + 1
        /\ clock' = t
        /\ last' = [op |-> "generate", proof |-> r.proof]
        /\ UNCHANGED others

\* the instants of a run: two calls may read the same one, and the clock
\* does not run backwards between two calls
Instants == 1..2

Readings == {t \in Instants : t >= clock}

(***************************************************************************)
(* Inputs of the generate operations.                                      *)
(***************************************************************************)
PhiResults ==
    { [phi |-> 1, integratedInformation |-> 1,
       causeRepertoire |-> <<1, 1>>, effectRepertoire |-> <<1, 1>>,
       partitionInfo |-> [numPartitions |-> 2, integrationLevel |-> 1,
                          partitionPhi |-> 0]],
      [phi |-> 4, integratedInformation |-> 2,
       causeRepertoire |-> <<1, 3>>, effectRepertoire |-> <<3, 1>>,
       partitionInfo |-> [numPartitions |-> 2, integrationLevel |-> 2,
                          partitionPhi |-> 1]] }

\* additionalData: absent, the engine's, and one that names integrationLevel
AdditionalData(sel) ==
    CASE sel = 0 -> << >>
      [] sel = 1 -> [initialization |-> TRUE, temporalAdvantage |-> 1]
      [] OTHER   -> [integrationLevel |-> 7]

\* additionalData comes with the first proof of a run, as the engine's
\* initialize() passes it, or not at all
ConsciousnessInputs ==
    { <<r, s>> \in PhiResults \X {0, 1} :
          /\ (r.phi = 1) = (s = 0)
          /\ s = 1 => nextId = 1 }

generateConsciousnessProof(phiResult, agentId, sel) ==
    \E t \in Readings :
        LET proofData ==
                Spread([phi |-> phiResult.phi,
                        integratedInformation |-> phiResult.integratedInformation,
                        causeRepertoireHash |-> hashArray(phiResult.causeRepertoire),
                        effectRepertoireHash |-> hashArray(phiResult.effectRepertoire),
                        partitionInfo |->
                            [numPartitions |-> phiResult.partitionInfo.numPartitions,
                             integrationLevel |-> phiResult.partitionInfo.integrationLevel],
                        agentId |-> agentId,
                        timestamp |-> t,
                        temporalAnchor |-> t],
                       AdditionalData(sel))
        IN  generateProof("consciousness", proofData, phiResult.phi, t)

generateDecisionProof(decisionId, context, selectedOptionId, phiContribution, processingTime) ==
    \E t \in Readings :
        LET proofData ==
                [decisionId |-> decisionId,
                 context |-> hashString(context),
                 selectedOptionId |-> selectedOptionId,
                 phiContribution |-> phiContribution,
                 processingTime |-> processingTime,
                 timestamp |-> t,
                 temporalAnchor |-> t]
        IN  generateProof("decision", proofData, phiContribution, t)

generateEvolutionProof(agentId, previousLevel, newLevel, evolutionDirections, transcendenceAchieved) ==
    \E t \in Readings :
        LET proofData ==
                [agentId |-> agentId,
                 previousLevel |-> previousLevel,
                 newLevel |-> newLevel,
                 evolutionDelta |-> newLevel - previousLevel,
                 evolutionDirections |-> evolutionDirections,
                 transcendenceAchieved |-> transcendenceAchieved,
                 timestamp |-> t,
                 temporalAnchor |-> t]
        IN  generateProof("evolution", proofData, newLevel, t)

\* Math.max(agentCount, 1)
Max(a, b) == IF a >= b THEN a ELSE b

generateNetworkProof(networkId, totalPhiValue, networkCoherence, agentCount, emergentProperties) ==
    \E t \in Readings :
        LET proofData ==
                [networkId |-> networkId,
                 totalPhiValue |-> totalPhiValue,
                 networkCoherence |-> networkCoherence,
                 agentCount |-> agentCount,
                 emergentProperties |-> emergentProperties,
                 averagePhi |-> totalPhiValue \div Max(agentCount, 1),
                 timestamp |-> t,
                 temporalAnchor |-> t]
        IN  generateProof("network", proofData, totalPhiValue, t)

(***************************************************************************)
(* Verification.                                                           *)
(***************************************************************************)
\* verifyProof raises when generateHash(proof.metadata) does
verifyProofThrows(proof) == generateHashThrows(proof, "metadata")

verifyProof(proof) ==
    LET expectedHash == generateHash(proof.metadata)
    IN  IF expectedHash # proof.hash
        THEN FALSE
        ELSE LET expectedSignature ==
                     generateSignature(proof.hash, proof.temporalAnchor)
             IN  IF expectedSignature # proof.signature THEN FALSE ELSE TRUE

\* (a slip: a broken link is also taken for a break of continuity)
verifyChainStepLinked(chain, i, acc) ==
    LET proof == chain[i]
        linked == ~(i > 1 /\ proof.previousProofId # chain[i - 1].id)
    IN  [chainIntegrity |-> acc.chainIntegrity /\ verifyProof(proof) /\ linked,
         temporalContinuity |->
             acc.temporalContinuity /\ linked
                 /\ ~(proof.timestamp < acc.previousTimestamp),
         totalPhiAccumulated |-> acc.totalPhiAccumulated + proof.phiValue,
         previousTimestamp |-> proof.timestamp]

\* one turn of verifyChain's loop: proof i (1-based) and the locals so far
verifyChainStep(chain, i, acc) ==
    LET proof == chain[i]
        integrity1 == IF ~verifyProof(proof) THEN FALSE ELSE acc.chainIntegrity
        integrity2 == IF i > 1 /\ proof.previousProofId # chain[i - 1].id
                      THEN FALSE
                      ELSE integrity1
        continuity == IF proof.timestamp < acc.previousTimestamp
                      THEN FALSE
                      ELSE acc.temporalContinuity
    IN  [chainIntegrity |-> integrity2,
         temporalContinuity |-> continuity,
         totalPhiAccumulated |-> acc.totalPhiAccumulated + proof.phiValue,
         previousTimestamp |-> proof.timestamp]

RECURSIVE verifyChainLoop(_, _, _)
verifyChainLoop(chain, i, acc) ==
    IF i > Len(chain) THEN acc
    ELSE verifyChainLoop(chain, i + 1, verifyChainStep(chain, i, acc))

verifyChainThrows(chain) ==
    \E i \in 1..Len(chain) : verifyProofThrows(chain[i])

\* the report of verifyChain() on a verifier holding chain and root
verifyChain(chain, root) ==
    LET acc == verifyChainLoop(chain, 1,
                   [chainIntegrity |-> TRUE, temporalContinuity |-> TRUE,
                    totalPhiAccumulated |-> 0, previousTimestamp |-> 0])
    IN  [proofs |-> chain,
         merkleRoot |-> IF Truthy(root) THEN root ELSE EmptyString,
         chainIntegrity |-> acc.chainIntegrity,
         temporalContinuity |-> acc.temporalContinuity,
         totalPhiAccumulated |-> acc.totalPhiAccumulated]

exportChain(chain, root, now) ==
    [proofs |-> chain,
     merkleRoot |-> IF Truthy(root) THEN root ELSE EmptyString,
     exportTimestamp |-> now,
     chainLength |-> Len(chain)]

(***************************************************************************)
(* Import.  A verifier is the record of its two fields.                    *)
(***************************************************************************)
\* (a slip: the root is not put back)
restoreChainOnly(verifier, originalChain, originalRoot) ==
    [ok |-> FALSE, proofChain |-> originalChain,
     currentMerkleRoot |-> verifier.currentMerkleRoot]

\* (a slip: the chain is not put back)
restoreRootOnly(verifier, originalChain, originalRoot) ==
    [ok |-> FALSE, proofChain |-> verifier.proofChain,
     currentMerkleRoot |-> originalRoot]

\* the catch block: both fields are put back, false is returned
restoreOriginal(verifier, originalChain, originalRoot) ==
    [ok |-> FALSE, proofChain |-> originalChain, currentMerkleRoot |-> originalRoot]

\* (a slip: a chain whose timestamps decrease is refused as well)
importThrowsOnDiscontinuity(chainData, swapped) ==
    IF swapped.currentMerkleRoot # chainData.merkleRoot THEN TRUE
    ELSE IF verifyChainThrows(swapped.proofChain) THEN TRUE
    ELSE LET verification ==
                 verifyChain(swapped.proofChain, swapped.currentMerkleRoot)
         IN  ~verification.chainIntegrity \/ ~verification.temporalContinuity

\* the checks of the try block on the swapped-in chain: TRUE when one throws
importThrows(chainData, swapped) ==
    IF swapped.currentMerkleRoot # chainData.merkleRoot THEN TRUE
    ELSE IF verifyChainThrows(swapped.proofChain) THEN TRUE
    ELSE ~verifyChain(swapped.proofChain, swapped.currentMerkleRoot).chainIntegrity

importAndVerifyChain(verifier, chainData) ==
    LET originalChain == verifier.proofChain
        originalRoot == verifier.currentMerkleRoot
    IN  IF "proofs" \notin DOMAIN chainData
        THEN \* this.proofChain is undefined and updateMerkleRoot raises
             restoreOriginal([proofChain |-> Null, currentMerkleRoot |-> originalRoot],
                             originalChain, originalRoot)
        ELSE LET swapped == [proofChain |-> chainData.proofs,
                             currentMerkleRoot |-> updateMerkleRoot(chainData.proofs)]
             IN  IF importThrows(chainData, swapped)
                 THEN restoreOriginal(swapped, originalChain, originalRoot)
                 ELSE [ok |-> TRUE,
                       proofChain |-> swapped.proofChain,
                       currentMerkleRoot |-> swapped.currentMerkleRoot]

(***************************************************************************)
(* The callers of the verifier: what they may hand to verifyProof and to   *)
(* importAndVerifyChain.  A caller holds the proofs the verifier returned  *)
(* and may alter its copy of one before handing it back.                   *)
(***************************************************************************)
Forged == SHA256([forged |-> TRUE])

\* another value of the same type for the property named k
Changed(k, v) ==
    CASE k \in {"causeRepertoireHash", "effectRepertoireHash"} -> hashArray(<<9>>)
      [] k = "context" -> hashString("forged")
      [] k \in {"agentId", "decisionId", "selectedOptionId", "networkId"} -> "forged"
      [] k \in {"evolutionDirections", "emergentProperties"} -> Append(v, "forged")
      [] k \in {"transcendenceAchieved", "initialization"} -> ~v
      [] k \in {"hash", "merkleRoot"} -> Forged
      [] k = "signature" -> generateSignature(Forged, 0)
      [] k = "timestamp" -> v - 2    \* an earlier instant, before 0 for 1
      [] OTHER -> v + 1

\* the places of a proof a caller may alter: << >> is none
MetadataPaths(proof) ==
    {<<"metadata", k>> : k \in {k \in DOMAIN proof.metadata : ~IsObject(k)}}

NestedPaths(proof) ==
    UNION {{<<"metadata", k, j>> : j \in DOMAIN proof.metadata[k]} :
              k \in {k \in DOMAIN proof.metadata : IsObject(k)}}

FieldPaths ==
    {<<f>> : f \in {"hash", "signature", "temporalAnchor", "previousProofId",
                    "phiValue", "timestamp", "merkleRoot"}}

DeletePath == <<"delete", "metadata", "", "">>

Paths(proof) ==
    {<< >>, DeletePath} \cup MetadataPaths(proof) \cup NestedPaths(proof) \cup FieldPaths

Alter(proof, path) ==
    CASE path = << >> -> proof
      [] Len(path) = 4 -> [f \in DOMAIN proof \ {"metadata"} |-> proof[f]]
      [] Len(path) = 1 -> [proof EXCEPT ![path[1]] = Changed(path[1], @)]
      [] Len(path) = 2 -> [proof EXCEPT !.metadata[path[2]] = Changed(path[2], @)]
      [] Len(path) = 3 ->
             [proof EXCEPT !.metadata[path[2]][path[3]] = Changed(path[3], @)]

Altered(path) ==
    CASE path = << >> -> "nothing"
      [] Len(path) = 4 -> "deleted"
      [] Len(path) = 1 -> "field"
      [] Len(path) = 2 -> "metadata"
      [] Len(path) = 3 -> "nested"

\* the places altered in a chain handed to importAndVerifyChain
ImportPaths(proof) ==
    {<< >>, DeletePath, <<"metadata", "timestamp">>}
        \cup NestedPaths(proof) \cup FieldPaths

Reverse(chain) == [i \in 1..Len(chain) |-> chain[Len(chain) + 1 - i]]

\* the proof lists a caller derives from the chain it was given
Selection(chain, sel) ==
    CASE sel = "full" -> chain
      [] sel = "dropLast" -> SubSeq(chain, 1, Len(chain) - 1)
      [] sel = "dropFirst" -> SubSeq(chain, 2, Len(chain))
      [] sel = "reversed" -> Reverse(chain)
      [] sel = "empty" -> << >>

Selections == {"full", "dropLast", "dropFirst", "reversed", "empty"}

\* the root a caller claims for a list: the one an export of that list
\* carries, a forged one, or null
ClaimedRoot(proofs, kind) ==
    CASE kind = "exported" ->
             buildMerkleRoot([i \in 1..Len(proofs) |-> proofs[i].hash])
      [] kind = "forged" -> Forged
      [] kind = "null" -> Null

ClaimedRoots == {"exported", "forged", "null"}

\* the list with the proof at position pos altered at path
AlterAt(proofs, pos, path) ==
    [i \in 1..Len(proofs) |-> IF i = pos THEN Alter(proofs[i], path) ELSE proofs[i]]

(***************************************************************************)
(* The operations of the verifier, as called.  A call is made when the     *)
(* result of the one before has been taken (Return).                       *)
(***************************************************************************)
Verifier == [proofChain |-> proofChain, currentMerkleRoot |-> currentMerkleRoot]

NewVerifier == [proofChain |-> << >>, currentMerkleRoot |-> Null]

VerifyProofOp ==
    /\ last = Idle
    /\ \E i \in {Len(proofChain)} \ {0} :
           \E path \in Paths(proofChain[i]) :
               \E proof \in {Alter(proofChain[i], path)} :
                   last' = [op |-> "verifyProof",
                            kind |-> proof.proofType,
                            altered |-> Altered(path),
                            result |-> IF verifyProofThrows(proof) THEN "throws"
                                       ELSE IF verifyProof(proof) THEN "true"
                                       ELSE "false"]
    /\ UNCHANGED <<proofChain, currentMerkleRoot, nextId, clock, others>>

\* what verifyChain has to find in a chain
Failing(chain) == \E i \in 1..Len(chain) : ~verifyProof(chain[i])

BrokenLink(chain) ==
    \E i \in 2..Len(chain) : chain[i].previousProofId # chain[i - 1].id

FirstLinked(chain) == Len(chain) > 0 /\ chain[1].previousProofId # NullId

Decreasing(chain) ==
    \E i \in 2..Len(chain) : chain[i].timestamp < chain[i - 1].timestamp

StartsBelowZero(chain) == Len(chain) > 0 /\ chain[1].timestamp < 0

\* the report of verifyChain on a chain, with what the chain holds
Reported(chain, root) ==
    IF verifyChainThrows(chain)
    THEN [threw |-> TRUE]
    ELSE \* the proofs of the report are the chain itself
         LET r == verifyChain(chain, root)
         IN  [threw |-> FALSE,
              chainIntegrity |-> r.chainIntegrity,
              temporalContinuity |-> r.temporalContinuity,
              totalPhiAccumulated |-> r.totalPhiAccumulated,
              merkleRoot |-> r.merkleRoot,
              failing |-> Failing(chain),
              brokenLink |-> BrokenLink(chain),
              firstLinked |-> FirstLinked(chain),
              decreasing |-> Decreasing(chain),
              startsBelowZero |-> StartsBelowZero(chain)]

VerifyChainOp ==
    /\ last = Idle
    /\ last' = [op |-> "verifyChain",
                report |-> Reported(proofChain, currentMerkleRoot)]
    /\ UNCHANGED <<proofChain, currentMerkleRoot, nextId, clock, others>>

ExportChainOp ==
    /\ last = Idle
    /\ last' = [op |-> "exportChain",
                data |-> exportChain(proofChain, currentMerkleRoot, clock)]
    /\ UNCHANGED <<proofChain, currentMerkleRoot, nextId, clock, others>>

\* the data handed to importAndVerifyChain, seen from outside
Given(chainData) ==
    IF "proofs" \notin DOMAIN chainData
    THEN [list |-> FALSE]
    ELSE [list |-> TRUE,
          length |-> Len(chainData.proofs),
          rootMatches |-> updateMerkleRoot(chainData.proofs) = chainData.merkleRoot,
          report |-> Reported(chainData.proofs, updateMerkleRoot(chainData.proofs))]

\* the record of a call of importAndVerifyChain(chainData) on verifier
Imported(by, verifier, chainData, r) ==
    [op |-> "importAndVerifyChain",
     by |-> by,
     held |-> Len(verifier.proofChain),
     faithful |-> /\ "proofs" \in DOMAIN chainData
                  /\ chainData.proofs = proofChain
                  /\ chainData.merkleRoot
                         = exportChain(proofChain, currentMerkleRoot, clock).merkleRoot,
     ok |-> r.ok,
     given |-> Given(chainData),
     restored |-> /\ r.proofChain = verifier.proofChain
                  /\ r.currentMerkleRoot = verifier.currentMerkleRoot,
     adopted |-> /\ "proofs" \in DOMAIN chainData
                 /\ r.proofChain = chainData.proofs
                 /\ r.currentMerkleRoot = chainData.merkleRoot,
     asExporter |-> /\ r.proofChain = proofChain
                    /\ r.currentMerkleRoot = currentMerkleRoot]

\* this verifier is handed back a list made of its own proofs
ImportCall(chainData) ==
    \E r \in {importAndVerifyChain(Verifier, chainData)} :
        /\ proofChain' = r.proofChain
        /\ currentMerkleRoot' = r.currentMerkleRoot
        /\ last' = Imported("this", Verifier, chainData, r)
        /\ UNCHANGED <<nextId, clock, others>>

ImportAndVerifyChainOp ==
    /\ last = Idle
    /\ \/ \E sel \in Selections, kind \in ClaimedRoots :
              \E proofs \in {Selection(proofChain, sel)} :
                  ImportCall([proofs |-> proofs,
                              merkleRoot |-> ClaimedRoot(proofs, kind)])
       \/ ImportCall([merkleRoot |-> EmptyString])

\* another verifier B is handed the export of this one, altered at path
ForeignCall(by, chainData, path) ==
    \E B \in {IF by = "new" THEN NewVerifier ELSE Verifier} :
        \E r \in {importAndVerifyChain(B, chainData)} :
            /\ last' = Spread(Imported(by, B, chainData, r), [altered |-> path])
            /\ UNCHANGED <<proofChain, currentMerkleRoot, nextId, clock, others>>

\* a new verifier is handed the export as it is; a verifier holding a copy of
\* this chain is handed the export with its last proof altered by the
\* carrier, who recomputes the root over the hash fields
ForeignImportOp ==
    /\ last = Idle
    /\ \E exported \in {exportChain(proofChain, currentMerkleRoot, clock)} :
           \E path \in IF proofChain = << >> THEN {<< >>}
                       ELSE ImportPaths(proofChain[Len(proofChain)]) :
               IF path = << >>
               THEN ForeignCall("new", exported, path)
               ELSE \E proofs \in {AlterAt(exported.proofs, Len(proofChain), path)} :
                        ForeignCall("copy",
                            [exported EXCEPT
                                !.proofs = proofs,
                                !.merkleRoot = ClaimedRoot(proofs, "exported")],
                            path)

\* the list with '' as the id of its last proof
Unnamed(chain) ==
    [i \in 1..Len(chain) |->
        IF i = Len(chain) THEN [chain[i] EXCEPT !.id = EmptyId] ELSE chain[i]]

\* lists that come from outside: a copy of the chain, one whose last proof
\* has '' as its id, one without the first proof
ExternalLists(chain) == {chain, Unnamed(chain), SubSeq(chain, 2, Len(chain))}

\* this verifier is handed a list from outside, with the root an export of
\* that list carries or a forged one
ExternalImportOp ==
    /\ last = Idle
    /\ \E proofs \in ExternalLists(proofChain), kind \in {"exported", "forged"} :
           ImportCall([proofs |-> proofs, merkleRoot |-> ClaimedRoot(proofs, kind)])

\* the caller takes the result
Return ==
    /\ last # Idle
    /\ last' = Idle
    /\ UNCHANGED <<proofChain, currentMerkleRoot, nextId, clock, others>>

(***************************************************************************)
(* Two generate calls on one verifier, interleaved at the steps of          *)
(* generateConsciousnessProof: read the last proof, push, recompute the    *)
(* root, stamp the root.                                                   *)
(***************************************************************************)
Tasks == {1, 2}

\* task 1 calls generateConsciousnessProof, task 2 generateDecisionProof
TaskInputs(t) ==
    IF t = 1
    THEN {[proofType |-> "consciousness", phiValue |-> r.phi,
           payload |-> [phi |-> r.phi,
                        integratedInformation |-> r.integratedInformation,
                        causeRepertoireHash |-> hashArray(r.causeRepertoire),
                        effectRepertoireHash |-> hashArray(r.effectRepertoire),
                        partitionInfo |->
                            [numPartitions |-> r.partitionInfo.numPartitions,
                             integrationLevel |-> r.partitionInfo.integrationLevel],
                        agentId |-> "agent-1"]] : r \in PhiResults}
    ELSE {[proofType |-> "decision", phiValue |-> 2,
           payload |-> [decisionId |-> "d1", context |-> hashString("ctx"),
                        selectedOptionId |-> "opt-1", phiContribution |-> 2,
                        processingTime |-> 3]]}

\* up to the proof literal: the payload is hashed and signed, the last
\* proof of the chain is read, the proof is built
ReadLast(t) ==
    /\ pc[t] = "idle"
    /\ nextId <= MaxProofs
    /\ \E in \in TaskInputs(t), now \in Readings :
           /\ local' = [local EXCEPT ![t] =
                  newProof(nextId, in.proofType,
                           Spread(in.payload, [timestamp |-> now, temporalAnchor |-> now]),
                           in.phiValue, now, now, proofChain)]
           /\ clock' = now
    /\ nextId' = nextId + 1
    /\ pc' = [pc EXCEPT ![t] = "read"]
    /\ overlapped' = (overlapped \/ \E u \in Tasks \ {t} : pc[u] # "idle")
    /\ UNCHANGED <<proofChain, currentMerkleRoot, last, shared, engine>>

\* this.proofChain.push(proof)
PushProof(t) ==
    /\ pc[t] = "read"
    /\ proofChain' = Append(proofChain, local[t])
    /\ pc' = [pc EXCEPT ![t] = "pushed"]
    /\ UNCHANGED <<currentMerkleRoot, nextId, clock, last, local, overlapped, shared, engine>>

\* this.updateMerkleRoot()
RecomputeRoot(t) ==
    /\ pc[t] = "pushed"
    /\ currentMerkleRoot' = updateMerkleRoot(proofChain)
    /\ pc' = [pc EXCEPT ![t] = "rooted"]
    /\ UNCHANGED <<proofChain, nextId, clock, last, local, overlapped, shared, engine>>

\* (a slip: every proof of the chain is stamped)
stampAll(chain, id, root) ==
    [i \in 1..Len(chain) |-> [chain[i] EXCEPT !.merkleRoot = root]]

\* proof.merkleRoot = ...: the object the task built, wherever it is in the chain
stamp(chain, id, root) ==
    [i \in 1..Len(chain) |->
        IF chain[i].id = id THEN [chain[i] EXCEPT !.merkleRoot = root] ELSE chain[i]]

\* proof.merkleRoot = this.currentMerkleRoot; return proof
StampRoot(t) ==
    /\ pc[t] = "rooted"
    /\ proofChain' = stamp(proofChain, local[t].id, currentMerkleRoot)
    /\ pc' = [pc EXCEPT ![t] = "idle"]
    /\ local' = [local EXCEPT ![t] = Null]
    /\ UNCHANGED <<currentMerkleRoot, nextId, clock, last, overlapped, shared, engine>>

RaceNext ==
    \/ \E t \in Tasks : ReadLast(t)
    \/ \E t \in Tasks : PushProof(t)
    \/ \E t \in Tasks : RecomputeRoot(t)
    \/ \E t \in Tasks : StampRoot(t)

(***************************************************************************)
(* Two verifiers and a caller that carries the export of one to the other. *)
(* proofChain is a reference to an array: exportChain returns the array    *)
(* this.proofChain names, importAndVerifyChain makes this.proofChain name  *)
(* the array it was handed, and push appends to the array in place.  Calls *)
(* do not overlap; last is the call that has just returned.                *)
(***************************************************************************)
VerifierNames == {"A", "B"}

\* the array each verifier is constructed with
OwnArray(v) == IF v = "A" THEN "a" ELSE "b"

ArrayNames == {OwnArray(v) : v \in VerifierNames}

\* the proofs in the array this.proofChain names
ChainOf(v) == arrays[verifiers[v].proofChain]

\* verifier v as the record of its two fields, the chain by its content
FieldsOf(v) ==
    [proofChain |-> ChainOf(v), currentMerkleRoot |-> verifiers[v].currentMerkleRoot]

\* v.generateDecisionProof(...): the push lands in the array v names
SharedGenerate(v) ==
    /\ nextId <= MaxProofs
    /\ \E r \in {pushAndStamp(ChainOf(v),
                     newProof(nextId, "decision",
                              [decisionId |-> "d1", context |-> hashString("ctx"),
                               selectedOptionId |-> "opt-1", phiContribution |-> 2,
                               processingTime |-> 3, timestamp |-> clock,
                               temporalAnchor |-> clock],
                              2, clock, clock, ChainOf(v)))} :
           /\ arrays' = [arrays EXCEPT ![verifiers[v].proofChain] = r.chain]
           /\ verifiers' = [verifiers EXCEPT ![v].currentMerkleRoot = r.root]
    /\ nextId' = nextId + 1
    /\ last' = [op |-> "generate", by |-> v]
    /\ UNCHANGED <<proofChain, currentMerkleRoot, clock, pc, local, overlapped, held,
                   engine>>

\* v.exportChain(): proofs is this.proofChain itself
SharedExport(v) ==
    /\ held' = [data |-> [exportChain(ChainOf(v), verifiers[v].currentMerkleRoot, clock)
                             EXCEPT !.proofs = verifiers[v].proofChain],
                returned |-> ChainOf(v),
                passed |-> Null]
    /\ last' = [op |-> "exportChain", by |-> v]
    /\ UNCHANGED <<proofChain, currentMerkleRoot, nextId, clock, pc, local, overlapped,
                   arrays, verifiers, engine>>

\* v.importAndVerifyChain(chainData) with chainData.proofs the array named
\* proofs: when the checks pass this.proofChain names that array, otherwise
\* it names the array it named before
SharedImport(v, proofs, merkleRoot) ==
    \E r \in {importAndVerifyChain(FieldsOf(v),
                   [proofs |-> arrays[proofs], merkleRoot |-> merkleRoot])} :
        /\ verifiers' =
               IF r.ok
               THEN [verifiers EXCEPT ![v] = [proofChain |-> proofs,
                                              currentMerkleRoot |-> r.currentMerkleRoot]]
               ELSE verifiers
        /\ held' = IF r.ok /\ held # Null /\ held.data.proofs = proofs
                   THEN [held EXCEPT !.passed = arrays[proofs]]
                   ELSE held
        /\ last' = [op |-> "importAndVerifyChain", by |-> v, ok |-> r.ok]
        /\ UNCHANGED <<proofChain, currentMerkleRoot, nextId, clock, pc, local,
                       overlapped, arrays, engine>>

\* the caller hands v the object it holds, or that object with a forged root
SharedImportOp(v) ==
    /\ held # Null
    /\ \E merkleRoot \in {held.data.merkleRoot, Forged} :
           SharedImport(v, held.data.proofs, merkleRoot)

SharedNext ==
    \/ \E v \in VerifierNames : SharedGenerate(v)
    \/ \E v \in VerifierNames : SharedExport(v)
    \/ \E v \in VerifierNames : SharedImportOp(v)

(***************************************************************************)
(* TemporalConsciousnessEngine: initialize, processTemporalDecision and    *)
(* generateMetaInsights called by tasks that run until their next await.   *)
(* The engine's verifier is the verifier of this model; ids of states and  *)
(* of proofs come from the same source.                                    *)
(***************************************************************************)
EngineCalls == {"initialize", "processTemporalDecision", "generateMetaInsights"}

\* the proof of initialize(): generateConsciousnessProof(lastPhiResult,
\* agentId, {initialization: true, temporalAdvantage})
initializationProof(id, now, chain) ==
    LET phiResult == CHOOSE r \in PhiResults : r.phi = 4
    IN  newProof(id, "consciousness",
            Spread([phi |-> phiResult.phi,
                    integratedInformation |-> phiResult.integratedInformation,
                    causeRepertoireHash |-> hashArray(phiResult.causeRepertoire),
                    effectRepertoireHash |-> hashArray(phiResult.effectRepertoire),
                    partitionInfo |->
                        [numPartitions |-> phiResult.partitionInfo.numPartitions,
                         integrationLevel |-> phiResult.partitionInfo.integrationLevel],
                    agentId |-> "temporal-engine",
                    timestamp |-> now,
                    temporalAnchor |-> now],
                   AdditionalData(1)),
            phiResult.phi, now, now, chain)

\* initialize() from 'if (this.initialized) return' to the first await:
\* the state is created, the proof is generated, the state row is sent
initializeToFirstAwait(t, call) ==
    LET r == pushAndStamp(proofChain, initializationProof(nextId + 1, clock, proofChain))
    IN  /\ currentState' = nextId
        /\ proofChain' = r.chain
        /\ currentMerkleRoot' = r.root
        /\ nextId' = nextId + 2
        /\ storage' = [storage EXCEPT !.consciousnessStates = Append(@, nextId)]
        /\ local' = [local EXCEPT ![t] = [call |-> call, proof |-> r.proof]]
        /\ pc' = [pc EXCEPT ![t] = "awaitState"]
        /\ UNCHANGED <<initialized, emitted>>

\* a task calls the engine: initialize() returns at once when initialized;
\* ensureInitialized() calls initialize() when not initialized, which then
\* passes its own guard in the same turn
BeginCall(t, call) ==
    /\ pc[t] = "idle"
    /\ calls < MaxCalls
    /\ calls' = calls + 1
    /\ overlapped' = (overlapped \/ \E u \in Tasks \ {t} : pc[u] # "idle")
    /\ IF initialized
       THEN /\ pc' = [pc EXCEPT ![t] = IF call = "initialize" THEN "idle" ELSE "ready"]
            /\ local' = [local EXCEPT ![t] = IF call = "initialize" THEN Null
                                              ELSE [call |-> call, proof |-> Null]]
            /\ UNCHANGED <<proofChain, currentMerkleRoot, nextId, initialized,
                           currentState, storage, emitted>>
       ELSE initializeToFirstAwait(t, call)
    /\ UNCHANGED <<clock, last, shared>>

\* after await storage.createConsciousnessState: the proof row is sent, with
\* the id of the state that is current now
AfterStateStored(t) ==
    /\ pc[t] = "awaitState"
    /\ storage' = [storage EXCEPT !.verificationProofs =
                       Append(@, [id |-> local[t].proof.id,
                                  consciousnessStateId |-> currentState])]
    /\ pc' = [pc EXCEPT ![t] = "awaitProof"]
    /\ UNCHANGED <<proofChain, currentMerkleRoot, nextId, clock, last, local,
                   overlapped, shared, initialized, currentState, emitted, calls>>

\* after await storage.createVerificationProof: the flag is set and the
\* event emitted; initialize() returns, to its caller or to ensureInitialized
AfterProofStored(t) ==
    /\ pc[t] = "awaitProof"
    /\ initialized' = TRUE
    /\ emitted' = emitted + 1
    /\ pc' = [pc EXCEPT ![t] = IF local[t].call = "initialize" THEN "idle" ELSE "ready"]
    /\ local' = [local EXCEPT ![t] = IF local[t].call = "initialize" THEN Null ELSE @]
    /\ UNCHANGED <<proofChain, currentMerkleRoot, nextId, clock, last, overlapped,
                   shared, currentState, storage, calls>>

\* after await this.ensureInitialized(): processTemporalDecision generates
\* its decision proof, generateMetaInsights returns its insights
AfterEnsureInitialized(t) ==
    /\ pc[t] = "ready"
    /\ IF local[t].call = "processTemporalDecision"
       THEN \E r \in {pushAndStamp(proofChain,
                          newProof(nextId, "decision",
                              [decisionId |-> "d1", context |-> hashString("ctx"),
                               selectedOptionId |-> "opt-1", phiContribution |-> 2,
                               processingTime |-> 3, timestamp |-> clock,
                               temporalAnchor |-> clock],
                              2, clock, clock, proofChain))} :
                /\ proofChain' = r.chain
                /\ currentMerkleRoot' = r.root
                /\ nextId' = nextId + 1
       ELSE UNCHANGED <<proofChain, currentMerkleRoot, nextId>>
    /\ pc' = [pc EXCEPT ![t] = "idle"]
    /\ local' = [local EXCEPT ![t] = Null]
    /\ UNCHANGED <<clock, last, overlapped, shared, engine>>

EngineNext ==
    \/ \E t \in Tasks, call \in EngineCalls : BeginCall(t, call)
    \/ \E t \in Tasks : AfterStateStored(t)
    \/ \E t \in Tasks : AfterProofStored(t)
    \/ \E t \in Tasks : AfterEnsureInitialized(t)

(***************************************************************************)
(* buildMerkleRoot on its own: any list of hashes, repeated ones included.  *)
(***************************************************************************)
\* three digests, as CryptoJS.SHA256(...).toString() gives them
LeafHashes == {SHA256([text |-> t]) : t \in {"a", "b", "c"}}

RECURSIVE Lists(_)
Lists(n) ==
    IF n = 0 THEN {<< >>}
    ELSE Lists(n - 1) \cup
         {Append(l, h) : l \in {m \in Lists(n - 1) : Len(m) = n - 1}, h \in LeafHashes}

BuildMerkleRootOp ==
    /\ last = Idle
    /\ \E leaves \in Lists(MaxLeaves) :
           last' = [op |-> "buildMerkleRoot",
                    leaves |-> leaves,
                    root |-> buildMerkleRoot(leaves)]
    /\ UNCHANGED <<proofChain, currentMerkleRoot, nextId, clock, others>>

MerkleNext ==
    \/ BuildMerkleRootOp
    \/ Return

(***************************************************************************)
(* IITPhiCalculator.  A number is kept to three decimals: x stands for     *)
(* x / Scale.  Math.exp, Math.log2 and Math.sqrt are computed to that      *)
(* precision; 1e-10 is below it.  Array indices are those of the code,     *)
(* from 0; the i-th entry of a list is at i + 1.                           *)
(***************************************************************************)
Scale == 1000

CONSCIOUSNESS_THRESHOLD == 3

MAX_PARTITION_DEPTH == 6

\* 1e-10
Tiny == 0

\* the number k
Fix(k) == k * Scale

Mul(a, b) == (a * b) \div Scale

Div(a, b) == (a * Scale) \div b

Abs(x) == IF x < 0 THEN -x ELSE x

Min(a, b) == IF a <= b THEN a ELSE b

\* arr.reduce((a, b) => a + b, 0)
RECURSIVE Sum(_)
Sum(arr) == IF arr = << >> THEN 0 ELSE arr[1] + Sum(Tail(arr))

\* Math.exp: the series 1 + x + x^2/2! + ..., until a term vanishes
RECURSIVE expSeries(_, _, _, _)
expSeries(x, k, term, sum) ==
    IF term = 0 THEN sum
    ELSE expSeries(x, k + 1, (term * x) \div (k * Scale), sum + term)

exp(x) ==
    IF x >= 0 THEN expSeries(x, 1, Scale, 0)
    ELSE Div(Scale, expSeries(-x, 1, Scale, 0))

\* Math.log2 of x > 0: the exponent, then the bits of the mantissa's logarithm
RECURSIVE log2Exponent(_, _)
log2Exponent(x, e) ==
    IF x >= 2 * Scale THEN log2Exponent(x \div 2, e + 1)
    ELSE IF x < Scale THEN log2Exponent(x * 2, e - 1)
    ELSE <<x, e>>

RECURSIVE log2Mantissa(_, _, _)
log2Mantissa(m, weight, acc) ==
    IF weight = 0 THEN acc
    ELSE LET square == (m * m) \div Scale
         IN  IF square >= 2 * Scale
             THEN log2Mantissa(square \div 2, weight \div 2, acc + weight)
             ELSE log2Mantissa(square, weight \div 2, acc)

log2(x) ==
    LET me == log2Exponent(x, 0)
    IN  Fix(me[2]) + log2Mantissa(me[1], Scale \div 2, 0)

\* Math.sqrt of x >= 0
sqrt(x) ==
    CHOOSE r \in 0..(x + Scale) :
        r * r <= x * Scale /\ (r + 1) * (r + 1) > x * Scale

sigmoid(x) == Div(Scale, Scale + exp(-x))

\* (a slip: the values are divided by their largest, not by their sum)
normalizeByLargest(dist) ==
    LET sum == Sum([i \in DOMAIN dist |-> Abs(dist[i])])
        largest == CHOOSE v \in {Abs(dist[i]) : i \in DOMAIN dist} \cup {0} :
                       \A i \in DOMAIN dist : Abs(dist[i]) <= v
    IN  IF sum = 0
        THEN [i \in DOMAIN dist |-> Div(Scale, Fix(Max(Len(dist), 1)))]
        ELSE [i \in DOMAIN dist |-> Div(Abs(dist[i]), largest)]

normalizeDistribution(dist) ==
    LET sum == Sum([i \in DOMAIN dist |-> Abs(dist[i])])
    IN  IF sum = 0
        THEN [i \in DOMAIN dist |-> Div(Scale, Fix(Max(Len(dist), 1)))]
        ELSE [i \in DOMAIN dist |-> Div(Abs(dist[i]), sum)]

\* (a slip: an absent weight counts as an edge of weight 1)
edgeOrOne(connections, r, c) ==
    IF r \in DOMAIN connections /\ c \in DOMAIN connections[r]
    THEN connections[r][c]
    ELSE 1

\* connections[r] && connections[r][c]: the weight, or 0 when the row or the
\* entry is absent (or 0): such a pair adds nothing to the influence
edge(connections, r, c) ==
    IF r \in DOMAIN connections /\ c \in DOMAIN connections[r]
    THEN connections[r][c]
    ELSE 0

calculateCauseRepertoire(state) ==
    LET n == Len(state.elements)
        causalInfluence(i) ==
            Sum([k \in 1..n |->
                    Mul(Fix(edge(state.connections, k - 1, i)),
                        Fix(state.elements[k]))])
    IN  normalizeDistribution(
            [k \in 1..n |-> sigmoid(Div(causalInfluence(k - 1), Fix(Max(n, 1))))])

calculateEffectRepertoire(state) ==
    LET n == Len(state.elements)
        effectInfluence(i) ==
            Sum([k \in 1..n |->
                    Mul(Fix(edge(state.connections, i, k - 1)),
                        Fix(state.elements[i + 1]))])
    IN  normalizeDistribution(
            [k \in 1..n |-> sigmoid(Div(effectInfluence(k - 1), Fix(Max(n, 1))))])

\* i & (1 << j) for a mask i below 2^31: the shift count is taken modulo 32,
\* and 1 << 31 is the sign bit, which no such mask has
IsBitSet(i, j) ==
    LET count == j % 32
    IN  count < 31 /\ (i \div (2 ^ count)) % 2 = 1

\* (a slip: the mask stops one short)
maxCombinationsShort(n) ==
    IF n = 0 THEN 0
    ELSE Min(2 ^ Min(n - 1, MAX_PARTITION_DEPTH), 2 ^ MAX_PARTITION_DEPTH) - 1

\* Math.min(Math.pow(2, n - 1), Math.pow(2, MAX_PARTITION_DEPTH)), the first
\* power being taken only as far as it decides the minimum; for n = 0 it is
\* 0.5, and 0 stops the loop from 1 as well
maxCombinations(n) ==
    IF n = 0 THEN 0
    ELSE Min(2 ^ Min(n - 1, MAX_PARTITION_DEPTH), 2 ^ MAX_PARTITION_DEPTH)

\* the candidate of mask i, or none
candidate(n, i) ==
    LET indices == [k \in 1..n |-> k - 1]
        partition1 == SelectSeq(indices, LAMBDA j : IsBitSet(i, j))
        partition2 == SelectSeq(indices, LAMBDA j : ~IsBitSet(i, j))
    IN  IF Len(partition1) > 0 /\ Len(partition2) > 0
        THEN << <<partition1, partition2>> >>
        ELSE << >>

RECURSIVE bipartitionsFrom(_, _, _)
bipartitionsFrom(n, i, partitions) ==
    IF i >= maxCombinations(n) THEN partitions
    ELSE bipartitionsFrom(n, i + 1, partitions \o candidate(n, i))

generateBipartitions(n) == bipartitionsFrom(n, 1, << >>)

\* part.map(i => repertoire[i] || 0)
partOf(repertoire, part) ==
    [k \in 1..Len(part) |->
        IF part[k] + 1 \in DOMAIN repertoire THEN repertoire[part[k] + 1] ELSE 0]

\* the parts are told apart as objects: by their place in the partition
getPartitionedDistribution(fullDistribution, current, allPartitions) ==
    LET otherInfluence(p) ==
            Div(Sum(partOf(fullDistribution, allPartitions[p])),
                Fix(Max(Len(allPartitions[p]), 1)))
        factor(p) ==
            IF p = current THEN Scale
            ELSE Scale - Mul(otherInfluence(p), Scale \div 2)
        RECURSIVE marginal(_, _)
        marginal(prob, p) ==
            IF p > Len(allPartitions) THEN prob
            ELSE marginal(Mul(prob, factor(p)), p + 1)
    IN  normalizeDistribution(
            [k \in 1..Len(allPartitions[current]) |->
                marginal(partOf(fullDistribution, allPartitions[current])[k], 1)])

RECURSIVE emdFrom(_, _, _, _, _)
emdFrom(dist1, dist2, i, cumDiff, emd) ==
    IF i > Len(dist1) THEN emd
    ELSE LET cum == cumDiff + (dist1[i] - dist2[i])
         IN  emdFrom(dist1, dist2, i + 1, cum, emd + Abs(cum))

calculateEMD(dist1, dist2) ==
    IF Len(dist1) # Len(dist2)
    THEN Abs(Sum(dist1) - Sum(dist2))
    ELSE emdFrom(dist1, dist2, 1, 0, 0)

calculatePartitionPhi(partition, causeRepertoire, effectRepertoire) ==
    Sum([p \in 1..Len(partition) |->
            calculateEMD(partOf(causeRepertoire, partition[p]),
                         getPartitionedDistribution(causeRepertoire, p, partition))
            + calculateEMD(partOf(effectRepertoire, partition[p]),
                           getPartitionedDistribution(effectRepertoire, p, partition))])

calculateIntegrationLevel(partition, totalElements) ==
    IF Len(partition) <= 1 THEN Fix(1)
    ELSE LET avgSize == Div(Fix(totalElements), Fix(Len(partition)))
             squares == [p \in 1..Len(partition) |->
                            Mul(Fix(Len(partition[p])) - avgSize,
                                Fix(Len(partition[p])) - avgSize)]
             variance == Div(Sum(squares), Fix(Len(partition)))
         IN  Max(Scale \div 10,
                 Fix(1) - Div(sqrt(variance), Fix(totalElements)))

\* (a slip: a candidate of the same loss replaces the one kept)
RECURSIVE minimumFromLast(_, _, _, _, _)
minimumFromLast(partitions, k, best, causeRepertoire, effectRepertoire) ==
    IF k > Len(partitions) THEN best
    ELSE LET partitionPhi ==
                 calculatePartitionPhi(partitions[k], causeRepertoire, effectRepertoire)
         IN  minimumFromLast(partitions, k + 1,
                 IF best.infinite \/ partitionPhi <= best.minPhi
                 THEN [infinite |-> FALSE, minPhi |-> partitionPhi,
                       bestPartition |-> partitions[k]]
                 ELSE best,
                 causeRepertoire, effectRepertoire)

\* the loop over the candidates: the first of the least loss is kept; minPhi
\* starts as Infinity (infinite), below which every loss is
RECURSIVE minimumFrom(_, _, _, _, _)
minimumFrom(partitions, k, best, causeRepertoire, effectRepertoire) ==
    IF k > Len(partitions) THEN best
    ELSE LET partitionPhi ==
                 calculatePartitionPhi(partitions[k], causeRepertoire, effectRepertoire)
         IN  minimumFrom(partitions, k + 1,
                 IF best.infinite \/ partitionPhi < best.minPhi
                 THEN [infinite |-> FALSE, minPhi |-> partitionPhi,
                       bestPartition |-> partitions[k]]
                 ELSE best,
                 causeRepertoire, effectRepertoire)

\* (a slip: the search starts from no group at all)
findMinimumInformationPartitionEmpty(state, causeRepertoire, effectRepertoire) ==
    LET n == Len(state.elements)
        found == minimumFrom(generateBipartitions(n), 1,
                     [infinite |-> TRUE, minPhi |-> 0, bestPartition |-> << >>],
                     causeRepertoire, effectRepertoire)
    IN  [minimumInformationPartition |-> found.bestPartition,
         partitionPhi |-> IF found.infinite THEN 0 ELSE found.minPhi,
         numPartitions |-> Len(found.bestPartition),
         integrationLevel |-> calculateIntegrationLevel(found.bestPartition, n)]

findMinimumInformationPartition(state, causeRepertoire, effectRepertoire) ==
    LET n == Len(state.elements)
        found == minimumFrom(generateBipartitions(n), 1,
                     [infinite |-> TRUE, minPhi |-> 0,
                      bestPartition |-> << [k \in 1..n |-> k - 1] >>],
                     causeRepertoire, effectRepertoire)
    IN  [minimumInformationPartition |-> found.bestPartition,
         partitionPhi |-> IF found.infinite THEN 0 ELSE found.minPhi,
         numPartitions |-> Len(found.bestPartition),
         integrationLevel |-> calculateIntegrationLevel(found.bestPartition, n)]

calculateMutualInformation(dist1, dist2) ==
    LET n == Min(Len(dist1), Len(dist2))
        term(i) ==
            LET p1 == Max(dist1[i], Tiny)
                p2 == Max(dist2[i], Tiny)
                joint == (p1 + p2) \div 2
            IN  IF joint > 0
                THEN Mul(joint, log2(Div(joint, Mul(p1, p2) + Tiny)))
                ELSE 0
    IN  Abs(Sum([i \in 1..n |-> term(i)]))

calculateIntegratedInformation(causeRepertoire, effectRepertoire, partitionInfo) ==
    LET wholeInfo == calculateMutualInformation(causeRepertoire, effectRepertoire)
        parts == partitionInfo.minimumInformationPartition
        partitionInfo_value ==
            Sum([p \in 1..Len(parts) |->
                    calculateMutualInformation(partOf(causeRepertoire, parts[p]),
                                               partOf(effectRepertoire, parts[p]))])
    IN  Max(0, wholeInfo - partitionInfo_value)

\* (a slip: the upper end of the range is not enforced)
computePhiValueUncapped(integratedInformation, partitionInfo) ==
    Max(0, Mul(integratedInformation, partitionInfo.integrationLevel) * 10)

computePhiValue(integratedInformation, partitionInfo) ==
    LET rawPhi == Mul(integratedInformation, partitionInfo.integrationLevel)
        scaledPhi == Min(Fix(15), rawPhi * 10)
    IN  Max(0, scaledPhi)

\* (a slip: the time the call took finds its way into phi)
calculatePhiTimed(state, startTime, endTime) ==
    LET causeRepertoire == calculateCauseRepertoire(state)
        effectRepertoire == calculateEffectRepertoire(state)
        partitionInfo ==
            findMinimumInformationPartition(state, causeRepertoire, effectRepertoire)
        integratedInformation ==
            calculateIntegratedInformation(causeRepertoire, effectRepertoire, partitionInfo)
        phi == computePhiValue(integratedInformation, partitionInfo)
    IN  [phi |-> phi + (endTime - startTime),
         integratedInformation |-> integratedInformation,
         partitionInfo |-> partitionInfo,
         causeRepertoire |-> causeRepertoire,
         effectRepertoire |-> effectRepertoire,
         temporalDepth |-> endTime - startTime,
         consciousnessThreshold |-> phi > Fix(CONSCIOUSNESS_THRESHOLD)]

\* calculatePhi(state), begun and ended at two readings of performance.now()
calculatePhi(state, startTime, endTime) ==
    LET causeRepertoire == calculateCauseRepertoire(state)
        effectRepertoire == calculateEffectRepertoire(state)
        partitionInfo ==
            findMinimumInformationPartition(state, causeRepertoire, effectRepertoire)
        integratedInformation ==
            calculateIntegratedInformation(causeRepertoire, effectRepertoire, partitionInfo)
        phi == computePhiValue(integratedInformation, partitionInfo)
    IN  [phi |-> phi,
         integratedInformation |-> integratedInformation,
         partitionInfo |-> partitionInfo,
         causeRepertoire |-> causeRepertoire,
         effectRepertoire |-> effectRepertoire,
         temporalDepth |-> endTime - startTime,
         consciousnessThreshold |-> phi > Fix(CONSCIOUSNESS_THRESHOLD)]

(***************************************************************************)
(* Callers of the calculator.                                              *)
(***************************************************************************)
\* the weight from r to c in a few networks of n elements
Weight(net, n, r, c) ==
    CASE net = "none" -> 0
      [] net = "ring" -> IF c = (r + 1) % n THEN 1 ELSE 0
      [] net = "all"  -> 1
      [] net = "self" -> IF r = c THEN 2 ELSE 0
      [] OTHER        -> ((r + 2 * c) % 3) - 1

Networks == {"none", "ring", "all", "self", "skew"}

\* which rows and entries the connections array holds
Present(shape, n, r, c) ==
    CASE shape = "square"  -> TRUE
      [] shape = "rowless" -> FALSE
      [] shape = "lastRowMissing" -> r < n - 1
      [] shape = "shortRows" -> c <= r
      [] OTHER -> (r + c) % 2 = 0

Shapes == {"square", "rowless", "lastRowMissing", "shortRows", "holes"}

Connections(net, shape, n) ==
    [r \in {q \in 0..(n - 1) : \E c \in 0..(n - 1) : Present(shape, n, q, c)} |->
        [c \in {d \in 0..(n - 1) : Present(shape, n, r, d)} |-> Weight(net, n, r, c)]]

SystemStates ==
    {[elements |-> elements, connections |-> Connections(net, shape, Len(elements))] :
        elements \in UNION {[1..n -> {0, 1}] : n \in 0..MaxElements},
        net \in Networks, shape \in Shapes}

\* the same state with every absent weight written as 0
Padded(state) ==
    LET n == Len(state.elements)
    IN  [state EXCEPT !.connections =
            [r \in 0..(n - 1) |->
                [c \in 0..(n - 1) |->
                    IF r \in DOMAIN state.connections /\ c \in DOMAIN state.connections[r]
                    THEN state.connections[r][c]
                    ELSE 0]]]

\* the call reads its argument and writes to new arrays only: the caller's
\* state is after the call what it was
CalculatePhiOp ==
    /\ last = Idle
    /\ \E state \in SystemStates, startTime \in {clock} :
           \E endTime \in {t \in Instants : t >= startTime} :
               /\ last' = [op |-> "calculatePhi",
                           given |-> state,
                           state |-> state,
                           result |-> calculatePhi(state, startTime, endTime)]
               /\ clock' = endTime
    /\ UNCHANGED <<proofChain, currentMerkleRoot, nextId, others>>

\* computePhiValue on its own: integrated information from 0 to 20 and the
\* integration levels calculateIntegrationLevel can return
ComputePhiValueOp ==
    /\ last = Idle
    /\ \E integratedInformation \in {0, Scale \div 10, Scale \div 2, Fix(2), Fix(20)},
          integrationLevel \in {Scale \div 10, Scale \div 2, Fix(1)} :
           last' = [op |-> "computePhiValue",
                    integratedInformation |-> integratedInformation,
                    integrationLevel |-> integrationLevel,
                    phi |-> computePhiValue(integratedInformation,
                                [integrationLevel |-> integrationLevel])]
    /\ UNCHANGED <<proofChain, currentMerkleRoot, nextId, clock, others>>

GenerateBipartitionsOp ==
    /\ last = Idle
    /\ \E n \in 0..MaxSize :
           last' = [op |-> "generateBipartitions",
                    n |-> n,
                    partitions |-> generateBipartitions(n)]
    /\ UNCHANGED <<proofChain, currentMerkleRoot, nextId, clock, others>>

PhiNext ==
    \/ CalculatePhiOp
    \/ ComputePhiValueOp
    \/ GenerateBipartitionsOp
    \/ Return

(***************************************************************************)
(* generateHash on objects whose properties have an order.  An object is   *)
(* the list of its properties in insertion order; a value is a number or   *)
(* an object.  Object.keys gives the names in insertion order, sort puts   *)
(* them in the order of their text, and JSON.stringify with that array as  *)
(* replacer writes, for every object of the value, the properties named in *)
(* the array, in the array's order.                                        *)
(***************************************************************************)
\* the property names of the payloads, in the order sort() gives them
SortedNames == <<"integrationLevel", "numPartitions", "partitionInfo", "phi">>

\* the place of a name in that order
Rank(name) == CHOOSE i \in DOMAIN SortedNames : SortedNames[i] = name

Number(n) == [isObject |-> FALSE, number |-> n, members |-> << >>]

Object(members) == [isObject |-> TRUE, number |-> 0, members |-> members]

\* Object.keys(data)
ObjectKeys(data) == [i \in DOMAIN data.members |-> data.members[i].key]

\* keys.sort()
sort(keys) == SortSeq(keys, LAMBDA a, b : Rank(a) < Rank(b))

HasOwn(object, key) == \E i \in DOMAIN object.members : object.members[i].key = key

Member(object, key) ==
    object.members[CHOOSE i \in DOMAIN object.members : object.members[i].key = key].value

\* JSON.stringify(value, replacer) for an array replacer: the text, as the
\* list of what is written
RECURSIVE JSONstringify(_, _)
JSONstringify(value, replacer) ==
    IF ~value.isObject THEN value
    ELSE LET kept == SelectSeq(replacer, LAMBDA k : HasOwn(value, k))
         IN  Object([i \in DOMAIN kept |->
                        [key |-> kept[i],
                         value |-> JSONstringify(Member(value, kept[i]), replacer)]])

\* generateHash(data) for such an object
generateHashOfObject(data) == SHA256(JSONstringify(data, sort(ObjectKeys(data))))

\* the lists that hold each element of a set once
Orderings(S) ==
    {f \in [1..Cardinality(S) -> S] : \A i, j \in 1..Cardinality(S) : i # j => f[i] # f[j]}

\* payloads: phi and partitionInfo, with or without a top-level property
\* named like one of partitionInfo, written in every order
Payloads ==
    {Object([i \in DOMAIN top |->
                [key |-> top[i],
                 value |-> CASE top[i] = "phi" -> Number(phi)
                             [] top[i] = "integrationLevel" -> Number(7)
                             [] OTHER ->
                                 Object([j \in DOMAIN nested |->
                                     [key |-> nested[j],
                                      value |-> IF nested[j] = "numPartitions"
                                                THEN Number(2) ELSE Number(level)]])]]) :
        top \in Orderings({"phi", "partitionInfo"})
                 \cup Orderings({"phi", "partitionInfo", "integrationLevel"}),
        nested \in Orderings({"numPartitions", "integrationLevel"}),
        phi \in {1, 4}, level \in {1, 2}}

\* an object without the order of its properties
RECURSIVE Content(_)
Content(value) ==
    IF ~value.isObject THEN value
    ELSE [isObject |-> TRUE, number |-> 0,
          members |-> {[key |-> value.members[i].key,
                        value |-> Content(value.members[i].value)] :
                           i \in DOMAIN value.members}]

\* two payloads with the same property names are hashed
GenerateHashOp ==
    /\ last = Idle
    /\ \E first \in Payloads :
           \E second \in {p \in Payloads : Len(p.members) = Len(first.members)} :
               last' = [op |-> "generateHash",
                        first |-> first,
                        second |-> second,
                        hashes |-> <<generateHashOfObject(first),
                                     generateHashOfObject(second)>>]
    /\ UNCHANGED <<proofChain, currentMerkleRoot, nextId, clock, others>>

HashNext ==
    \/ GenerateHashOp
    \/ Return

(***************************************************************************)
(* The specification.                                                      *)
(***************************************************************************)
Init ==
    /\ proofChain = << >>
    /\ currentMerkleRoot = Null
    /\ nextId = 1
    /\ clock = 1
    /\ last = Idle
    /\ pc = [t \in Tasks |-> "idle"]
    /\ local = [t \in Tasks |-> Null]
    /\ overlapped = FALSE
    /\ arrays = [a \in ArrayNames |-> << >>]
    /\ verifiers = [v \in VerifierNames |->
                       [proofChain |-> OwnArray(v), currentMerkleRoot |-> Null]]
    /\ held = Null
    /\ initialized = FALSE
    /\ currentState = Null
    /\ storage = [consciousnessStates |-> << >>, verificationProofs |-> << >>]
    /\ emitted = 0
    /\ calls = 0

Next ==
    \/ \E in \in ConsciousnessInputs :
           generateConsciousnessProof(in[1], "agent-1", in[2])
    \/ generateDecisionProof("d1", "ctx", "opt-1", 2, 3)
    \/ generateEvolutionProof("agent-1", 1, 3, <<"up">>, FALSE)
    \/ generateNetworkProof("net", 4, 1, 2, <<"sync">>)
    \/ VerifyProofOp
    \/ VerifyChainOp
    \/ ExportChainOp
    \/ ImportAndVerifyChainOp
    \/ ForeignImportOp
    \/ Return

Spec == Init /\ [][Next]_vars

\* the verifier among callers that hand it lists from outside
ExternalNext ==
    \/ generateDecisionProof("d1", "ctx", "opt-1", 2, 3)
    \/ generateEvolutionProof("agent-1", 1, 3, <<"up">>, FALSE)
    \/ ExternalImportOp
    \/ VerifyChainOp
    \/ Return

ExternalSpec == Init /\ [][ExternalNext]_vars

\* two verifiers that exchange an export
SharedSpec == Init /\ [][SharedNext]_vars

\* generateHash applied to payloads
HashSpec == Init /\ [][HashNext]_vars

\* one engine under two tasks
EngineSpec == Init /\ [][EngineNext]_vars

\* buildMerkleRoot applied to lists of hashes
MerkleSpec == Init /\ [][MerkleNext]_vars

\* the calculator applied to system states, generateBipartitions to sizes
PhiSpec == Init /\ [][PhiNext]_vars

\* the same verifier under two callers whose generate calls interleave
RaceSpec == Init /\ [][RaceNext]_vars

(***************************************************************************)
(* Properties.                                                             *)
(***************************************************************************)
\* the chain holds the proofs generated so far, all of them, in the order
\* of their generation: nothing was dropped by an import
GeneratedOnly ==
    /\ Len(proofChain) = nextId - 1
    /\ \A k \in 1..Len(proofChain) : proofChain[k].id = k

Hashes(chain) == [i \in 1..Len(chain) |-> chain[i].hash]

IsPrefix(s, t) == Len(s) <= Len(t) /\ SubSeq(t, 1, Len(s)) = s

IsImport == last.op = "importAndVerifyChain"

\* C1: after generate calls alone, the first generated proof has a null
\* previousProofId and the k-th has the id of the (k-1)-th
ChainLinkage ==
    GeneratedOnly =>
        /\ \A k \in 1..Len(proofChain) :
               proofChain[k].previousProofId
                   = IF k = 1 THEN NullId ELSE proofChain[k - 1].id
        /\ last.op = "generate" => last.proof = proofChain[Len(proofChain)]

ChainLinkageWitness ==
    /\ GeneratedOnly
    /\ Len(proofChain) = 3
    /\ last.op = "generate"
    /\ {proofChain[k].proofType : k \in 1..3} = {"consciousness", "decision", "network"}

\* C2: verifyProof returns false for a proof of which one metadata field,
\* at the top level or inside a nested object, was changed after generation
TamperDetection ==
    (last.op = "verifyProof" /\ last.altered \in {"metadata", "nested"})
        => last.result = "false"

\* C3: an import whose claimed root differs from the recomputed one returns
\* false and leaves the proof list and the root as they were
ImportSafety ==
    (IsImport /\ last.given.list /\ ~last.given.rootMatches)
        => (~last.ok /\ last.restored)

ImportSafetyWitness ==
    /\ IsImport
    /\ last.by = "this"
    /\ last.held = 2
    /\ last.given.list
    /\ last.given.length = 1
    /\ ~last.given.rootMatches
    /\ ~last.given.report.threw
    /\ last.given.report.chainIntegrity

\* C4: an import that fails for another reason (a list that does not verify
\* under a matching root, no list, a proof without metadata) returns false
\* and leaves the proof list and the root as they were; whatever is refused
\* leaves them as they were
ImportTransactional ==
    IsImport =>
        /\ ~last.ok => last.restored
        /\ ~last.given.list => ~last.ok
        /\ (/\ last.given.list
            /\ last.given.rootMatches
            /\ (last.given.report.threw \/ ~last.given.report.chainIntegrity))
               => ~last.ok

ImportTransactionalWitness ==
    /\ IsImport
    /\ last.by = "copy"
    /\ last.held = 2
    /\ last.given.list
    /\ last.given.rootMatches
    /\ ~last.given.report.threw
    /\ last.given.report.failing
    /\ ~last.given.report.brokenLink
    /\ ~last.ok

\* C5: an import returns true exactly when the root it recomputes for the
\* given list (null for an empty list) is the claimed root and verifyChain
\* reports chainIntegrity for the list; it then holds the given list and the
\* claimed root; temporalContinuity plays no part
ImportDecision ==
    IsImport =>
        /\ last.ok <=> (/\ last.given.list
                        /\ last.given.rootMatches
                        /\ ~last.given.report.threw
                        /\ last.given.report.chainIntegrity)
        /\ last.ok => last.adopted

ImportDecisionWitness ==
    /\ IsImport
    /\ last.ok
    /\ last.adopted
    /\ last.given.length = 2
    /\ ~last.given.report.temporalContinuity

\* C6: a new verifier given the export of this one returns true and ends
\* with the proof list and the root of this one, the empty chain included
RoundTrip ==
    (IsImport /\ last.by = "new" /\ last.faithful)
        => (last.ok /\ last.asExporter)

\* C7: verifyProof returns true for the proof a generate operation returned
SelfVerification ==
    last.op = "generate"
        => (~verifyProofThrows(last.proof) /\ verifyProof(last.proof))

SelfVerificationWitness ==
    /\ last.op = "generate"
    /\ last.proof.proofType = "evolution"
    /\ Len(proofChain) = 3
    /\ proofChain[1].proofType = "consciousness"
    /\ "initialization" \in DOMAIN proofChain[1].metadata

\* C8: verifyChain reports chainIntegrity exactly when no proof fails
\* verifyProof, no proof after the first has a previousProofId other than the
\* id of the one before it, and the first proof has a null previousProofId
Verdict(report) ==
    ~report.threw =>
        (report.chainIntegrity
            <=> ~(report.failing \/ report.brokenLink \/ report.firstLinked))

ChainVerdict ==
    /\ last.op = "verifyChain" => Verdict(last.report)
    /\ (IsImport /\ last.given.list) => Verdict(last.given.report)

\* C9: the chain before any operation is a prefix of the chain after it
AppendOnly == [][IsPrefix(proofChain, proofChain')]_vars

\* C9, amended: the chain before an operation is a prefix of the chain after
\* it, except for an accepted import, after which the chain is the given list
AppendOnlyButImport ==
    [][IF last'.op = "importAndVerifyChain" /\ last'.by = "this" /\ last'.ok
       THEN last'.adopted
       ELSE IsPrefix(proofChain, proofChain')]_vars

AppendOnlyWitness ==
    /\ IsImport
    /\ last.by = "this"
    /\ ~last.ok
    /\ last.held = 3
    /\ last.given.list
    /\ last.given.length = 3
    /\ Len(proofChain) = 3

\* C10: a generated proof carries the root of the chain up to and including
\* it, and keeps it when later proofs are appended
StampedRoot ==
    /\ last.op = "generate" =>
           /\ last.proof = proofChain[Len(proofChain)]
           /\ last.proof.merkleRoot = buildMerkleRoot(Hashes(proofChain))
    /\ GeneratedOnly =>
           \A i \in 1..Len(proofChain) :
               proofChain[i].merkleRoot
                   = buildMerkleRoot(Hashes(SubSeq(proofChain, 1, i)))

StampedRootWitness ==
    /\ last.op = "generate"
    /\ Len(proofChain) = 2
    /\ nextId = 4
    /\ proofChain[1].previousProofId # NullId

\* C11: neither verifyProof nor verifyChain throws, whatever proof or chain
\* it is applied to, a proof without metadata included: a call ends with a
\* boolean or with a report
NeverThrows ==
    /\ last.op = "verifyProof" => last.result \in {"true", "false"}
    /\ last.op = "verifyChain" => ~last.report.threw

\* C12: after interleaved generate calls the chain can hold two proofs with
\* the same previousProofId or a proof whose merkleRoot is not the root of the
\* chain up to and including it; after calls that each ran to completion
\* before the next began it cannot
Quiescent == \A t \in Tasks : pc[t] = "idle"

SamePrevious(chain) ==
    \E i, j \in 1..Len(chain) :
        i < j /\ chain[i].previousProofId = chain[j].previousProofId

StaleRoot(chain) ==
    \E i \in 1..Len(chain) :
        chain[i].merkleRoot # buildMerkleRoot(Hashes(SubSeq(chain, 1, i)))

SerializedAppends ==
    (Quiescent /\ (SamePrevious(proofChain) \/ StaleRoot(proofChain)))
        => overlapped

SerializedAppendsWitness ==
    /\ Quiescent
    /\ overlapped
    /\ Len(proofChain) = 2
    /\ SamePrevious(proofChain)
    /\ StaleRoot(proofChain)

Swapped(leaves, i, j) ==
    [k \in 1..Len(leaves) |->
        IF k = i THEN leaves[j] ELSE IF k = j THEN leaves[i] ELSE leaves[k]]

IsRoot == last.op = "buildMerkleRoot"

\* C13: the root of a list of hashes changes when two leaves holding
\* distinct hashes change places (no two inputs of the digest collide)
MerkleSensitivity ==
    IsRoot =>
        \A i, j \in 1..Len(last.leaves) :
            last.leaves[i] # last.leaves[j]
                => buildMerkleRoot(Swapped(last.leaves, i, j)) # last.root

MerkleSensitivityWitness ==
    /\ IsRoot
    /\ Len(last.leaves) = 5
    /\ last.leaves[1] = last.leaves[2]
    /\ last.leaves[3] # last.leaves[5]
    /\ last.leaves[4] = last.leaves[5]

\* C14: the root of no leaf is empty, the root of one leaf is that leaf, and
\* the root of more is what is left when adjacent pairs are hashed left to
\* right, a trailing unpaired hash with itself, level after level
PairUp(level) ==
    [k \in 1..((Len(level) + 1) \div 2) |->
        IF 2 * k <= Len(level)
        THEN SHA256(Concat(level[2 * k - 1], level[2 * k]))
        ELSE SHA256(Concat(level[2 * k - 1], level[2 * k - 1]))]

RECURSIVE Reduce(_)
Reduce(level) == IF Len(level) <= 1 THEN level[1] ELSE Reduce(PairUp(level))

MerkleShape ==
    IsRoot =>
        /\ Len(last.leaves) = 0 => last.root = EmptyString
        /\ Len(last.leaves) = 1 => last.root = last.leaves[1]
        /\ Len(last.leaves) >= 2 => last.root = Reduce(last.leaves)

MerkleShapeWitness ==
    /\ IsRoot
    /\ Len(last.leaves) = 5
    /\ last.leaves[1] # last.leaves[2]
    /\ last.leaves[2] # last.leaves[3]
    /\ last.root = SHA256(Concat(
           SHA256(Concat(SHA256(Concat(last.leaves[1], last.leaves[2])),
                         SHA256(Concat(last.leaves[3], last.leaves[4])))),
           SHA256(Concat(SHA256(Concat(last.leaves[5], last.leaves[5])),
                         SHA256(Concat(last.leaves[5], last.leaves[5]))))))

\* the reports of verifyChain a state holds: that of a call of verifyChain,
\* and that of the call importAndVerifyChain makes on the list it was given
Reports ==
    IF last.op = "verifyChain" THEN {last.report}
    ELSE IF IsImport /\ last.given.list THEN {last.given.report}
    ELSE {}

\* C15: verifyChain reports temporalContinuity exactly when no timestamp is
\* smaller than the one before it; decreasing timestamps alone do not
\* turn chainIntegrity false, a failing proof or a broken link alone does not
\* turn temporalContinuity false
TemporalVerdict ==
    \A report \in {r \in Reports : ~r.threw} :
        /\ report.temporalContinuity <=> ~report.decreasing
        /\ (report.decreasing /\ ~report.failing /\ ~report.brokenLink)
               => report.chainIntegrity
        /\ ((report.failing \/ report.brokenLink) /\ ~report.decreasing)
               => report.temporalContinuity

\* C15, amended: the first timestamp is compared with 0, so a chain that
\* starts before 0 is reported as not continuous as well
TemporalVerdictFromZero ==
    \A report \in {r \in Reports : ~r.threw} :
        /\ report.temporalContinuity
               <=> ~(report.decreasing \/ report.startsBelowZero)
        /\ (report.decreasing /\ ~report.failing /\ ~report.brokenLink)
               => report.chainIntegrity
        /\ ((report.failing \/ report.brokenLink)
                /\ ~report.decreasing /\ ~report.startsBelowZero)
               => report.temporalContinuity

TemporalVerdictWitness ==
    /\ IsImport
    /\ last.given.list
    /\ last.given.length = 3
    /\ ~last.given.report.threw
    /\ last.given.report.brokenLink
    /\ ~last.given.report.failing
    /\ ~last.given.report.decreasing
    /\ last.given.report.temporalContinuity
    /\ ~last.given.report.chainIntegrity

IsPhi == last.op = "calculatePhi"

\* a result without the time the call took
Core(result) ==
    [phi |-> result.phi,
     integratedInformation |-> result.integratedInformation,
     partitionInfo |-> result.partitionInfo,
     causeRepertoire |-> result.causeRepertoire,
     effectRepertoire |-> result.effectRepertoire]

\* C16: the phi calculatePhi returns is between 0 and 15, and
\* consciousnessThreshold is true exactly when phi is above 3; computePhiValue
\* keeps any integrated information and integration level within 0 and 15
PhiRange ==
    /\ IsPhi =>
           /\ 0 <= last.result.phi
           /\ last.result.phi <= Fix(15)
           /\ last.result.consciousnessThreshold
                  <=> last.result.phi > Fix(CONSCIOUSNESS_THRESHOLD)
    /\ last.op = "computePhiValue" =>
           /\ 0 <= last.phi
           /\ last.phi <= Fix(15)
           /\ last.phi = Fix(15)
                  \/ last.phi = Mul(last.integratedInformation, last.integrationLevel) * 10

PhiRangeWitness ==
    /\ IsPhi
    /\ Len(last.given.elements) = 3
    /\ last.result.partitionInfo.numPartitions = 2
    /\ last.result.phi = 0
    /\ ~last.result.consciousnessThreshold

IsRepertoire(repertoire, n) ==
    /\ Len(repertoire) = n
    /\ \A i \in 1..n : repertoire[i] >= 0
    /\ Sum(repertoire) <= Fix(1)
    /\ Sum(repertoire) > Fix(1) - n

AllZero(state) ==
    /\ \A i \in DOMAIN state.elements : state.elements[i] = 0
    /\ \A r \in DOMAIN state.connections :
           \A c \in DOMAIN state.connections[r] : state.connections[r][c] = 0

IsUniform(repertoire, n) == \A i \in 1..n : repertoire[i] = Fix(1) \div n

RepertoireValidity ==
    (IsPhi /\ Len(last.given.elements) >= 1) =>
        LET n == Len(last.given.elements)
        IN  /\ IsRepertoire(last.result.causeRepertoire, n)
            /\ IsRepertoire(last.result.effectRepertoire, n)
            /\ AllZero(last.given) =>
                   /\ IsUniform(last.result.causeRepertoire, n)
                   /\ IsUniform(last.result.effectRepertoire, n)

RepertoireValidityWitness ==
    /\ IsPhi
    /\ Len(last.given.elements) = 3
    /\ ~IsUniform(last.result.causeRepertoire, 3)
    /\ ~IsUniform(last.result.effectRepertoire, 3)
    /\ last.result.causeRepertoire # last.result.effectRepertoire

\* C19: with rows or entries of the connections absent, calculatePhi returns
\* what it returns for the same state with 0 written in their place
RaggedTotality ==
    IsPhi => Core(last.result) = Core(calculatePhi(Padded(last.given), clock, clock))

RaggedTotalityWitness ==
    /\ IsPhi
    /\ Len(last.given.elements) = 3
    /\ DOMAIN last.given.connections = {0, 1}
    /\ ~IsUniform(last.result.causeRepertoire, 3)

\* C20: for n from 2 to 7 generateBipartitions(n) yields every split of
\* 0..n-1 into two non-empty parts once, 2^(n-1) - 1 candidates, each made of
\* two non-empty disjoint parts that cover 0..n-1
Range(list) == {list[i] : i \in DOMAIN list}

Splits(n) ==
    {{A, (0..(n - 1)) \ A} : A \in SUBSET (0..(n - 1)) \ {{}, 0..(n - 1)}}

ExhaustiveBipartitions ==
    (last.op = "generateBipartitions" /\ last.n >= 2 /\ last.n <= 7) =>
        /\ Len(last.partitions) = 2 ^ (last.n - 1) - 1
        /\ {{Range(p[1]), Range(p[2])} : p \in Range(last.partitions)} = Splits(last.n)
        /\ \A p \in Range(last.partitions) :
               /\ Len(p) = 2
               /\ Range(p[1]) # {} /\ Range(p[2]) # {}
               /\ Range(p[1]) \cap Range(p[2]) = {}
               /\ Range(p[1]) \cup Range(p[2]) = 0..(last.n - 1)
               /\ Len(p[1]) + Len(p[2]) = last.n

ExhaustiveBipartitionsWitness ==
    /\ last.op = "generateBipartitions"
    /\ last.n = 7
    /\ Len(last.partitions) = 63
    /\ last.partitions[63] = << <<0, 1, 2, 3, 4, 5>>, <<6>> >>

\* bit j of a mask below 2^MAX_PARTITION_DEPTH, as a number has it
BitOfMask(mask, j) == j < MAX_PARTITION_DEPTH /\ (mask \div (2 ^ j)) % 2 = 1

\* C21: for every n above 7 generateBipartitions(n) yields 63 candidates, the
\* k-th that of mask k: index j is in its first part exactly when bit j of k
\* is set, so every index from 6 on is in its second part
CappedBipartitions ==
    (last.op = "generateBipartitions" /\ last.n > 7) =>
        /\ Len(last.partitions) = 2 ^ MAX_PARTITION_DEPTH - 1
        /\ \A mask \in 1..Len(last.partitions) :
               \A j \in 0..(last.n - 1) :
                   /\ j \in Range(last.partitions[mask][1]) <=> BitOfMask(mask, j)
                   /\ j \in Range(last.partitions[mask][2]) <=> ~BitOfMask(mask, j)

\* the same for the sizes a 32-bit shift count covers
CappedBipartitionsBelowShiftWidth ==
    (last.op = "generateBipartitions" /\ last.n <= 32) => CappedBipartitions

\* the candidates enumerated for the state of the last call, and the loss of
\* the k-th of them
Candidates == generateBipartitions(Len(last.given.elements))

Loss(k) ==
    calculatePartitionPhi(Candidates[k], last.result.causeRepertoire,
                          last.result.effectRepertoire)

\* the place of the partition returned among the candidates
IsWinner(k) ==
    /\ last.result.partitionInfo.minimumInformationPartition = Candidates[k]
    /\ last.result.partitionInfo.partitionPhi = Loss(k)

\* C22: when a candidate was enumerated, the partition returned is a
\* candidate whose loss none of the others is below, partitionPhi is that
\* loss, and every candidate enumerated before it has a greater loss
MinimalPartition ==
    (IsPhi /\ Len(Candidates) > 0) =>
        \E k \in 1..Len(Candidates) :
            /\ IsWinner(k)
            /\ \A m \in 1..Len(Candidates) : Loss(k) <= Loss(m)
            /\ \A m \in 1..(k - 1) : Loss(m) > Loss(k)

\* the least loss is that of two candidates, the first candidate loses more
MinimalPartitionWitness ==
    /\ IsPhi
    /\ Len(Candidates) >= 3
    /\ ~IsWinner(1)
    /\ \E k \in 1..Len(Candidates) :
           /\ IsWinner(k)
           /\ \E m \in (k + 1)..Len(Candidates) : Loss(m) = Loss(k)
           /\ Loss(1) > Loss(k)

\* C23: for a state of no element or of one, no candidate is enumerated and
\* calculatePhi returns one group of all the indices, numPartitions 1,
\* partitionPhi 0, integrationLevel 1, integratedInformation 0, phi 0 and
\* consciousnessThreshold false
DegenerateSystems ==
    (IsPhi /\ Len(last.given.elements) <= 1) =>
        LET n == Len(last.given.elements)
            info == last.result.partitionInfo
        IN  /\ Candidates = << >>
            /\ info.minimumInformationPartition = << [k \in 1..n |-> k - 1] >>
            /\ info.numPartitions = 1
            /\ info.partitionPhi = 0
            /\ info.integrationLevel = Fix(1)
            /\ last.result.integratedInformation = 0
            /\ last.result.phi = 0
            /\ ~last.result.consciousnessThreshold

\* one element that is on and feeds itself
DegenerateSystemsWitness ==
    /\ IsPhi
    /\ last.given.elements = <<1>>
    /\ 0 \in DOMAIN last.given.connections
    /\ last.given.connections[0][0] = 2
    /\ last.result.causeRepertoire = <<Fix(1)>>
    /\ last.result.partitionInfo.minimumInformationPartition = << <<0>> >>

\* the id of the last proof of a chain, null for the empty chain
LastId(chain) == IF chain = << >> THEN NullId ELSE chain[Len(chain)].id

\* C24: from every state of the verifier, a generate call returns a proof
\* whose previousProofId is the id of the last proof of the chain as it was
\* when the call was made, or null when that chain was empty
PreviousOfCurrent ==
    [][last'.op = "generate" => last'.proof.previousProofId = LastId(proofChain)]_vars

\* the same whenever the id of the last proof is not ''
PreviousOfCurrentNamed ==
    [][(last'.op = "generate" /\ LastId(proofChain) # EmptyId)
           => last'.proof.previousProofId = LastId(proofChain)]_vars

\* for a verifier whose array no other verifier appends to: after every
\* generate call and every import, accepted or refused, the root held is the
\* Merkle root computed over the hashes of the proofs of the chain, in their
\* order, and it is null exactly when the chain is empty
RootConsistency ==
    last.op \in {"generate", "importAndVerifyChain"} =>
        /\ proofChain # << >> =>
               currentMerkleRoot = buildMerkleRoot(Hashes(proofChain))
        /\ currentMerkleRoot = Null <=> proofChain = << >>

\* a refused import of a verifier that holds three proofs
RootConsistencyWitness ==
    /\ IsImport
    /\ last.by = "this"
    /\ ~last.ok
    /\ Len(proofChain) = 3
    /\ currentMerkleRoot = buildMerkleRoot(Hashes(proofChain))

\* an accepted import that left the verifier with fewer proofs
RootConsistencyShorterWitness ==
    /\ IsImport
    /\ last.by = "this"
    /\ last.ok
    /\ last.held = 3
    /\ Len(proofChain) = 2

\* C25: after every generate call and every import of a verifier, accepted
\* or refused, the root it holds is the Merkle root computed over the hashes
\* of the proofs of its chain, null when the chain is empty; here for each of
\* two verifiers that exchange exports
SharedRootConsistency ==
    (last.op \in {"generate", "importAndVerifyChain"}) =>
        verifiers[last.by].currentMerkleRoot = updateMerkleRoot(ChainOf(last.by))

\* the root an export of a list carries
ExportedRoot(list) ==
    IF list = << >> THEN EmptyString ELSE buildMerkleRoot(Hashes(list))

\* C29: whatever is called after exportChain returned, the object returned
\* holds the proofs it held, as many as chainLength says, with the root of
\* their hashes, and a new verifier accepts it when it holds a proof; and
\* after an accepted import the list handed in holds what it held
ExportSnapshot ==
    held # Null =>
        LET list == arrays[held.data.proofs]
        IN  /\ list = held.returned
            /\ Len(list) = held.data.chainLength
            /\ held.data.merkleRoot = ExportedRoot(list)
            /\ list # << >> =>
                   importAndVerifyChain(NewVerifier,
                       [proofs |-> list, merkleRoot |-> held.data.merkleRoot]).ok
            /\ held.passed # Null => list = held.passed

\* C27: whatever generate calls and imports, accepted or refused, were made
\* on a verifier, with lists from outside among them, verifyChain reports
\* chainIntegrity true
IntegrityInvariant ==
    last.op = "verifyChain" => ~last.report.threw /\ last.report.chainIntegrity

\* the same when no proof of the chain has '' as its id
IntegrityInvariantNamed ==
    (last.op = "verifyChain" /\ \A i \in DOMAIN proofChain : TruthyId(proofChain[i].id))
        => ~last.report.threw /\ last.report.chainIntegrity

\* the phi values of a list of proofs, summed
RECURSIVE TotalPhi(_)
TotalPhi(chain) ==
    IF chain = << >> THEN 0 ELSE chain[1].phiValue + TotalPhi(Tail(chain))

\* an import by a verifier that was handed the export with one proof altered
IsCarried == IsImport /\ last.by = "copy"

\* C28: an export in which the phiValue, the timestamp or the merkleRoot of
\* a proof was altered, all else left as exported, is refused, so that the
\* total of an accepted chain is the sum of the phi values the proofs were
\* generated with
FieldTamperEvidence ==
    IsCarried =>
        /\ last.altered \in {<<"phiValue">>, <<"timestamp">>, <<"merkleRoot">>}
               => ~last.ok
        /\ last.ok => last.given.report.totalPhiAccumulated = TotalPhi(proofChain)

\* an altered hash, signature, temporalAnchor or metadata timestamp is refused
SignedTamperEvidence ==
    IsCarried =>
        (last.altered \in {<<"hash">>, <<"signature">>, <<"temporalAnchor">>,
                           <<"metadata", "timestamp">>}
            => ~last.ok)

IsHash == last.op = "generateHash"

\* payloads that hold the same values under the same names have one hash,
\* whatever the order of their properties, nested ones included
OrderIndependence ==
    (IsHash /\ Content(last.first) = Content(last.second))
        => last.hashes[1] = last.hashes[2]

OrderIndependenceWitness ==
    /\ IsHash
    /\ Content(last.first) = Content(last.second)
    /\ ObjectKeys(last.first) # ObjectKeys(last.second)
    /\ ObjectKeys(Member(last.first, "partitionInfo"))
           # ObjectKeys(Member(last.second, "partitionInfo"))
    /\ Len(last.first.members) = 3

\* C26: the hash of a payload does not depend on the order of its
\* properties, at the top or in a nested object, and payloads that differ in
\* the value of a property have different hashes
CanonicalHashing ==
    IsHash => (Content(last.first) = Content(last.second)
                   <=> last.hashes[1] = last.hashes[2])

\* the initialization proofs of a chain
InitializationProofs(chain) ==
    {i \in DOMAIN chain : "initialization" \in DOMAIN chain[i].metadata}

\* C30: however initialize, processTemporalDecision and generateMetaInsights
\* interleave on one engine, one initialization proof is appended, the state
\* and the proof are stored once and 'initialized' is emitted once
InitializesOnce ==
    /\ Cardinality(InitializationProofs(proofChain)) <= 1
    /\ Len(storage.consciousnessStates) <= 1
    /\ Len(storage.verificationProofs) <= 1
    /\ emitted <= 1
    /\ initialized =>
           /\ Cardinality(InitializationProofs(proofChain)) = 1
           /\ Len(storage.consciousnessStates) = 1

\* the same when no call began while another was under way
InitializesOnceSerially == ~overlapped => InitializesOnce

\* a call that begins when the engine is initialized appends no
\* initialization proof
NoLateInitialization ==
    [][initialized =>
           InitializationProofs(proofChain') = InitializationProofs(proofChain)]_vars

=============================================================================
